---- MODULE Spec2Model ----
(***************************************************************************)
(* A model of the jira-sprint-summary MCP server (src/unnamed/part_000):   *)
(* the sprint resolver JiraSprintManager.getActiveSprint, the aggregation  *)
(* loop of JiraSprintManager.getSprintDetails and the velocity projection  *)
(* of SprintAnalyzer.buildSprintProgressPrompt.                            *)
(*                                                                         *)
(* The program runs on Node.js.  JavaScript numbers are IEEE-754 binary64  *)
(* values; the arithmetic the program rounds (Math.round of a quotient     *)
(* times a factor) is modelled bit for bit, with a 53 bit significand.     *)
(***************************************************************************)
EXTENDS Integers, Sequences, FiniteSets, TLC

(***************************************************************************)
(* Bounds of the model.                                                    *)
(***************************************************************************)
\* longest issue list handed to the aggregation loop
MaxIssues == 3
\* clock ticks per day (the program counts milliseconds; 86400000 per day)
DayTicks == 2
\* the boards of the Jira site are 1..MaxBoard
MaxBoard == 2
\* longest list of sprints the unfiltered sprint query returns
MaxSprints == 3

(***************************************************************************)
(* JavaScript values.                                                      *)
(***************************************************************************)
\* the value undefined of an optional number or date (boardId?, startDate)
Undefined == -1

\* a JavaScript number: finite (v), NaN, or an infinity (v its sign)
Fin(i) == [k |-> "fin", v |-> i]
NaN == [k |-> "nan", v |-> 0]
Inf(s) == [k |-> "inf", v |-> s]

IsFin(x) == x.k = "fin"

Abs(i) == IF i < 0 THEN -i ELSE i
Sgn(i) == IF i < 0 THEN -1 ELSE 1
Max(a, b) == IF a >= b THEN a ELSE b

(***************************************************************************)
(* IEEE-754 binary64, round to nearest, ties to even.  A nonzero finite    *)
(* value is [sign, m, e]: m the 53 bits of the significand, most           *)
(* significant first (m[1] = 1), e the exponent of m[1].                   *)
(***************************************************************************)
MantBits == 53

RECURSIVE Normalize(_, _, _)
\* scale n/d by powers of two until 1 <= n/d < 2
Normalize(n, d, e) ==
    IF n >= 2 * d THEN Normalize(n, 2 * d, e + 1)
    ELSE IF n < d THEN Normalize(2 * n, d, e - 1)
    ELSE [n |-> n, d |-> d, e |-> e]

\* the significand is cut into the leading bit and four limbs of 13 bits,
\* so that every intermediate product stays below 2^31
Limb == 2^13

\* the 13 bits of a limb, most significant first
LimbBits(c) == [i \in 1..13 |-> (c \div 2^(13 - i)) % 2]

\* the number of bits of v >= 1, and its bits, most significant first
BitLen(v) == CHOOSE len \in 1..31 : v < 2^len /\ (len = 1 \/ v >= 2^(len - 1))
BitsOf(v) == [i \in 1..BitLen(v) |-> (v \div 2^(BitLen(v) - i)) % 2]

\* the value of at most 31 bits, most significant first
RECURSIVE BitsToInt(_, _)
BitsToInt(s, acc) == IF s = <<>> THEN acc ELSE BitsToInt(Tail(s), 2 * acc + Head(s))

AnyOne(s) == \E i \in 1..Len(s) : s[i] = 1

\* one more than the numeral s (most significant first); a numeral of
\* ones only becomes 1 followed by Len(s) zeros
Increment(s) ==
    IF \A i \in 1..Len(s) : s[i] = 1
    THEN [i \in 1..(Len(s) + 1) |-> IF i = 1 THEN 1 ELSE 0]
    ELSE LET j == CHOOSE i \in 1..Len(s) :
                      s[i] = 0 /\ \A h \in (i + 1)..Len(s) : s[h] = 1
         IN [i \in 1..Len(s) |-> IF i < j THEN s[i] ELSE IF i = j THEN 1 ELSE 0]

\* round the numeral bits (most significant first, bits[1] = 1, at least
\* MantBits + 1 digits; sticky: a nonzero tail was cut off) to 53 bits
RoundToMant(bits, sticky, e, sign) ==
    LET keep == SubSeq(bits, 1, MantBits)
        guard == bits[MantBits + 1]
        rest == SubSeq(bits, MantBits + 2, Len(bits))
        up == guard = 1 /\ (sticky \/ AnyOne(rest) \/ keep[MantBits] = 1)
        inc == Increment(keep)
    IN IF ~up THEN [sign |-> sign, m |-> keep, e |-> e]
       ELSE IF Len(inc) > MantBits
            THEN [sign |-> sign, m |-> SubSeq(inc, 1, MantBits), e |-> e + 1]
            ELSE [sign |-> sign, m |-> inc, e |-> e]

\* n / d for integers n # 0, d # 0 (|n|, |d| < 2^17): long division, 13
\* bits at a time, then the guard bit and the sticky rest
FDiv(n, d) ==
    LET z == Normalize(Abs(n), Abs(d), 0)
        r1 == z.n - z.d
        r2 == (r1 * Limb) % z.d
        r3 == (r2 * Limb) % z.d
        r4 == (r3 * Limb) % z.d
        r5 == (r4 * Limb) % z.d
        guard == IF 2 * r5 >= z.d THEN 1 ELSE 0
        bits == <<1>> \o LimbBits((r1 * Limb) \div z.d) \o LimbBits((r2 * Limb) \div z.d)
                      \o LimbBits((r3 * Limb) \div z.d) \o LimbBits((r4 * Limb) \div z.d)
                      \o <<guard>>
    IN RoundToMant(bits, 2 * r5 - guard * z.d > 0, z.e, Sgn(n) * Sgn(d))

\* f * k for a finite nonzero f and an integer k # 0 (|k| < 2^17): the
\* exact product, limb by limb, rounded to 53 bits
FMulInt(f, k) ==
    LET l1 == BitsToInt(SubSeq(f.m, 2, 14), 0)
        l2 == BitsToInt(SubSeq(f.m, 15, 27), 0)
        l3 == BitsToInt(SubSeq(f.m, 28, 40), 0)
        l4 == BitsToInt(SubSeq(f.m, 41, 53), 0)
        v4 == l4 * Abs(k)
        v3 == l3 * Abs(k) + v4 \div Limb
        v2 == l2 * Abs(k) + v3 \div Limb
        v1 == l1 * Abs(k) + v2 \div Limb
        v0 == Abs(k) + v1 \div Limb
        prod == BitsOf(v0) \o LimbBits(v1 % Limb) \o LimbBits(v2 % Limb)
                           \o LimbBits(v3 % Limb) \o LimbBits(v4 % Limb)
    IN RoundToMant(Append(prod, 0), FALSE,
                   f.e + (Len(prod) - MantBits), f.sign * Sgn(k))

\* a variant of MathRound that drops the fraction
MathRound_Truncating(f) ==
    IF f.e < 0 THEN 0 ELSE f.sign * BitsToInt(SubSeq(f.m, 1, f.e + 1), 0)

\* Math.round: the nearest integer, a half rounded towards +infinity
\* (for |f| < 2^31)
MathRound(f) ==
    LET ni == f.e + 1  \* how many bits of m are before the binary point
        int == IF ni <= 0 THEN 0 ELSE BitsToInt(SubSeq(f.m, 1, ni), 0)
        half == IF ni < 0 THEN 0 ELSE f.m[ni + 1]
        more == IF ni < 0 THEN TRUE ELSE AnyOne(SubSeq(f.m, ni + 2, MantBits))
    IN IF f.sign = 1 THEN int + half
       ELSE -(int + (IF half = 1 /\ more THEN 1 ELSE 0))

\* Math.round((n / d) * k) for integers n, d # 0, k
RoundDivMul(n, d, k) ==
    IF n = 0 \/ k = 0 THEN 0 ELSE MathRound(FMulInt(FDiv(n, d), k))

\* the nearest integer to the rational n/d (d > 0), a half rounded up:
\* the mathematical round the specification writes
RoundHalfUp(n, d) == (2 * n + d) \div (2 * d)

(***************************************************************************)
(* A plain object literal {} used as a map (statusCounts, typeCounts):     *)
(* a function from its own keys to their values.  A key the object does    *)
(* not own is looked up on Object.prototype.                               *)
(***************************************************************************)
Str(j) == [k |-> "str", v |-> j]   \* a string ending in j digits "1"
Undef == [k |-> "undef", v |-> 0]  \* undefined, read from a missing key
Inherited == [k |-> "obj", v |-> 0] \* a function or object of the prototype

EmptyObject == [key \in {} |-> Undef]

ObjectPrototypeKeys ==
    {"constructor", "__proto__", "toString", "toLocaleString", "valueOf",
     "hasOwnProperty", "isPrototypeOf", "propertyIsEnumerable",
     "__defineGetter__", "__defineSetter__", "__lookupGetter__",
     "__lookupSetter__"}

\* o[key]
ObjGet(o, key) ==
    IF key = "__proto__" THEN Inherited
    ELSE IF key \in DOMAIN o THEN o[key]
    ELSE IF key \in ObjectPrototypeKeys THEN Inherited
    ELSE Undef

\* o[key] = val; the __proto__ setter ignores a value that is no object
ObjSet(o, key, val) ==
    IF key = "__proto__" THEN o
    ELSE [x \in DOMAIN o \cup {key} |-> IF x = key THEN val ELSE o[x]]

\* (x || 0) + 1: a number counts up, a missing key starts at 1, and an
\* object or a string is concatenated with "1"
OrZeroPlusOne(x) ==
    CASE x.k = "fin" -> Fin(x.v + 1)
      [] x.k = "undef" -> Fin(1)
      [] x.k = "obj" -> Str(1)
      [] x.k = "str" -> Str(x.v + 1)

\* counts[label] = (counts[label] || 0) + 1
CountLabel(counts, label) == ObjSet(counts, label, OrZeroPlusOne(ObjGet(counts, label)))

(***************************************************************************)
(* The aggregation loop of getSprintDetails.  An issue is                  *)
(* [status, type, points]: fields.status.name, fields.issuetype.name and   *)
(* fields.customfield_10016 (Undef when the field is absent).              *)
(***************************************************************************)
doneStatuses == {"Done", "Closed", "Resolved", "Completed", "Finalizado", "Concluído"}

\* issue.fields.customfield_10016 || 0
StoryPoints(issue) ==
    IF issue.points.k = "undef" \/ issue.points.v = 0 THEN 0 ELSE issue.points.v

\* a variant of IsDone that compares the labels without regard to case
IsDone_IgnoreCase(status) == status \in doneStatuses \cup {"done", "DONE"}

\* doneStatuses.includes(status)
IsDone(status) == status \in doneStatuses

EmptyAcc ==
    [statusCounts |-> EmptyObject, typeCounts |-> EmptyObject,
     completedPoints |-> 0, totalPoints |-> 0]

\* a variant of LoopBody that adds to totalPoints the points of the open
\* issues only
LoopBody_TotalOfOpen(acc, issue) ==
    [statusCounts |-> CountLabel(acc.statusCounts, issue.status),
     typeCounts |-> CountLabel(acc.typeCounts, issue.type),
     totalPoints |-> IF IsDone(issue.status)
                     THEN acc.totalPoints
                     ELSE acc.totalPoints + StoryPoints(issue),
     completedPoints |-> IF IsDone(issue.status)
                         THEN acc.completedPoints + StoryPoints(issue)
                         ELSE acc.completedPoints]

\* one iteration of `for (const issue of issues)`
LoopBody(acc, issue) ==
    [statusCounts |-> CountLabel(acc.statusCounts, issue.status),
     typeCounts |-> CountLabel(acc.typeCounts, issue.type),
     totalPoints |-> acc.totalPoints + StoryPoints(issue),
     completedPoints |-> IF IsDone(issue.status)
                         THEN acc.completedPoints + StoryPoints(issue)
                         ELSE acc.completedPoints]

\* a variant of PercentComplete without the guard: 0 / 0 is not a number
PercentComplete_Unguarded(completed, total) ==
    IF total = 0 THEN Undefined ELSE RoundDivMul(completed, total, 100)

\* a variant of PercentComplete with the operands of the division swapped
PercentComplete_Swapped(completed, total) ==
    IF total > 0 /\ completed > 0 THEN RoundDivMul(total, completed, 100) ELSE 0

\* totalPoints > 0 ? Math.round((completedPoints / totalPoints) * 100) : 0
PercentComplete(completed, total) ==
    IF total > 0 THEN RoundDivMul(completed, total, 100) ELSE 0

\* the issues and progress parts of the object getSprintDetails returns
DetailsOf(issues, acc) ==
    [total |-> Len(issues),
     byStatus |-> acc.statusCounts,
     byType |-> acc.typeCounts,
     completedPoints |-> acc.completedPoints,
     totalPoints |-> acc.totalPoints,
     percentComplete |-> PercentComplete(acc.completedPoints, acc.totalPoints)]

RECURSIVE Fold(_, _)
\* the whole loop
Fold(acc, issues) ==
    IF issues = <<>> THEN acc ELSE Fold(LoopBody(acc, Head(issues)), Tail(issues))

Aggregate(issues) == DetailsOf(issues, Fold(EmptyAcc, issues))

Issue(s, t, p) == [status |-> s, type |-> t, points |-> p]

\* the issues the search may return
IssueKinds ==
    {Issue("Done", "Story", Fin(5)), Issue("In Progress", "Story", Fin(3)),
     Issue("done", "Bug", Fin(5)), Issue("DONE", "Task", Fin(2)),
     Issue("Closed", "Bug", Fin(17)), Issue("Resolved", "Story", Fin(23)),
     Issue("Completed", "Task", Undef), Issue("Finalizado", "Story", Fin(1)),
     Issue("Concluído", "Bug", Fin(8)), Issue("To Do", "Task", Fin(17)),
     Issue("To Do", "Bug", Fin(-3)),
     Issue("constructor", "Bug", Fin(3)), Issue("In Progress", "valueOf", Fin(0))}

RECURSIVE SeqsUpTo(_, _)
\* the sequences over S of length at most n
SeqsUpTo(S, n) ==
    IF n = 0 THEN {<<>>}
    ELSE LET shorter == SeqsUpTo(S, n - 1)
         IN shorter \cup {Append(s, x) : s \in shorter, x \in S}

IssueLists == SeqsUpTo(IssueKinds, MaxIssues)

(***************************************************************************)
(* The velocity projection of buildSprintProgressPrompt.  A date is a      *)
(* number of clock ticks, or Undefined; new Date(undefined).getTime() is   *)
(* NaN, and NaN spreads through the arithmetic.                            *)
(***************************************************************************)
\* new Date(d).getTime()
GetTime(d) == IF d = Undefined THEN NaN ELSE Fin(d)

\* a - b
Sub(a, b) ==
    IF IsFin(a) /\ IsFin(b) THEN Fin(a.v - b.v)
    ELSE IF a.k = "nan" \/ b.k = "nan" THEN NaN
    ELSE IF IsFin(a) THEN Inf(-b.v)
    ELSE IF IsFin(b) THEN a
    ELSE IF a.v = b.v THEN NaN ELSE a

\* Math.floor(x / (1000 * 60 * 60 * 24))
FloorDays(x) == IF IsFin(x) THEN Fin(x.v \div DayTicks) ELSE x

\* a variant of MaxZero that lets a negative number through
MaxZero_Unclamped(x) == x

\* Math.max(0, x)
MaxZero(x) ==
    IF IsFin(x) THEN Fin(Max(0, x.v))
    ELSE IF x.k = "inf" /\ x.v < 0 THEN Fin(0)
    ELSE x

\* Math.round((n / d) * k) for finite or NaN n, d and a finite k
RoundRatioTimes(n, d, k) ==
    IF ~IsFin(n) \/ ~IsFin(d) THEN NaN
    ELSE IF d.v = 0
         THEN (IF n.v = 0 \/ k.v = 0 THEN NaN ELSE Inf(Sgn(n.v) * Sgn(k.v)))
         ELSE Fin(RoundDivMul(n.v, d.v, k.v))

\* totalDays - daysLeft || 1
Divisor(totalDays, daysLeft) ==
    LET elapsed == Sub(totalDays, daysLeft)
    IN IF IsFin(elapsed) /\ elapsed.v # 0 THEN elapsed.v ELSE 1

\* the numbers buildSprintProgressPrompt prints.  pointsPerDay is the
\* quotient num / den of two integers (den # 0), kept unevaluated.
Project(sprint, progress, today) ==
    LET endDate == GetTime(sprint.endDate)
        totalDays == FloorDays(Sub(endDate, GetTime(sprint.startDate)))
        daysLeft == MaxZero(FloorDays(Sub(endDate, Fin(today))))
        percentTimeElapsed ==
            RoundRatioTimes(Sub(totalDays, daysLeft), totalDays, Fin(100))
        den == Divisor(totalDays, daysLeft)
    IN [totalDays |-> totalDays,
        daysLeft |-> daysLeft,
        percentTimeElapsed |-> percentTimeElapsed,
        pointsPerDay |-> [num |-> progress.completedPoints, den |-> den],
        projectedCompletion |->
            IF IsFin(totalDays)
            THEN Fin(RoundDivMul(progress.completedPoints, den, totalDays.v))
            ELSE NaN,
        burndownDifference |-> Sub(Fin(progress.percentComplete), percentTimeElapsed)]

\* the lengths, in whole days, of the sprints the model looks at
WindowDays == {0, 1, 10, 40}
\* the start of a dated sprint
BaseTick == 3 * DayTicks
Window(s, e) == [startDate |-> s, endDate |-> e]
Windows ==
    {Window(BaseTick, BaseTick + d * DayTicks + f) : d \in WindowDays, f \in 0..(DayTicks - 1)}
    \cup {Window(Undefined, Undefined), Window(BaseTick, Undefined)}
\* the values of the clock, from before the start to after the longest end
Todays == 0..(BaseTick + 43 * DayTicks)

ProgressOf(c, t) ==
    [completedPoints |-> c, totalPoints |-> t, percentComplete |-> PercentComplete(c, t)]
Progresses == {ProgressOf(0, 0), ProgressOf(5, 8), ProgressOf(30, 40), ProgressOf(23, 40)}

(***************************************************************************)
(* Sprints, and the sort of the fallback tier.  Array.prototype.sort is    *)
(* the one of V8 (Node.js): an array shorter than 64 elements is one run,  *)
(* found by CountAndMakeRun and completed by a binary insertion sort.      *)
(***************************************************************************)
Sprint(id, state, startDate, endDate) ==
    [id |-> id, state |-> state, startDate |-> startDate, endDate |-> endDate]

NoSprint == Sprint(0, "none", Undefined, Undefined)

\* a variant of the comparator that sorts by startDate ascending
SprintCompare_Ascending(a, b) ==
    IF a.startDate = Undefined THEN 1
    ELSE IF b.startDate = Undefined THEN -1
    ELSE a.startDate - b.startDate

\* a variant of SprintCompare that puts the first of two undated sprints
\* before the second
SprintCompare_UndatedBefore(a, b) ==
    IF a.startDate = Undefined /\ b.startDate = Undefined THEN -1
    ELSE IF a.startDate = Undefined THEN 1
    ELSE IF b.startDate = Undefined THEN -1
    ELSE b.startDate - a.startDate

\* the comparator handed to sort (lines 186-190)
SprintCompare(a, b) ==
    IF a.startDate = Undefined THEN 1
    ELSE IF b.startDate = Undefined THEN -1
    ELSE b.startDate - a.startDate

RECURSIVE RunEnd(_, _, _)
\* the last index of the run that starts at 1 and reaches idx - 1
RunEnd(arr, idx, descending) ==
    IF idx > Len(arr) THEN Len(arr)
    ELSE LET order == SprintCompare(arr[idx], arr[idx - 1])
         IN IF (descending /\ order >= 0) \/ (~descending /\ order < 0)
            THEN idx - 1
            ELSE RunEnd(arr, idx + 1, descending)

\* the initial run of an array of two or more elements; a strictly
\* descending run is reversed in place
CountAndMakeRun(arr) ==
    LET descending == SprintCompare(arr[2], arr[1]) < 0
        runLength == RunEnd(arr, 3, descending)
    IN [runLength |-> runLength,
        arr |-> IF descending
                THEN [i \in 1..Len(arr) |->
                        IF i <= runLength THEN arr[runLength + 1 - i] ELSE arr[i]]
                ELSE arr]

RECURSIVE BinarySearch(_, _, _, _)
\* where the pivot goes among arr[left .. right - 1]
BinarySearch(arr, pivot, left, right) ==
    IF left >= right THEN left
    ELSE LET mid == left + ((right - left) \div 2)
         IN IF SprintCompare(pivot, arr[mid]) < 0
            THEN BinarySearch(arr, pivot, left, mid)
            ELSE BinarySearch(arr, pivot, mid + 1, right)

\* arr with the element at index start moved to index left <= start
MoveTo(arr, start, left) ==
    [i \in 1..Len(arr) |->
        IF i < left \/ i > start THEN arr[i]
        ELSE IF i = left THEN arr[start]
        ELSE arr[i - 1]]

RECURSIVE BinaryInsertionSort(_, _)
\* arr[1 .. start - 1] is sorted; insert the elements from start on
BinaryInsertionSort(arr, start) ==
    IF start > Len(arr) THEN arr
    ELSE BinaryInsertionSort(
             MoveTo(arr, start, BinarySearch(arr, arr[start], 1, start)),
             start + 1)

\* values.sort(comparator): the array after the sort
ArraySort(arr) ==
    IF Len(arr) < 2 THEN arr
    ELSE LET run == CountAndMakeRun(arr)
         IN BinaryInsertionSort(run.arr, run.runLength + 1)

BoardIds == 1..MaxBoard

\* the sprints of the Jira site: two active ones, and closed and future
\* ones, some of them without dates
ActiveSprints ==
    {Sprint(1, "active", BaseTick, BaseTick + 10 * DayTicks),
     Sprint(2, "active", 2, BaseTick + DayTicks)}
OtherSprints ==
    {Sprint(3, "closed", 1, 3), Sprint(4, "closed", 3, 5),
     Sprint(5, "future", 3, 3 + 10 * DayTicks),
     Sprint(7, "future", Undefined, Undefined),
     Sprint(8, "future", Undefined, Undefined)}

\* the sequences without repetition over S of length at most n
RECURSIVE ArrangementsUpTo(_, _)
ArrangementsUpTo(S, n) ==
    IF n = 0 THEN {<<>>}
    ELSE LET shorter == ArrangementsUpTo(S, n - 1)
         IN shorter \cup {Append(s, x) : s \in shorter, x \in S}

NoRepeat(s) == \A i, j \in DOMAIN s : i # j => s[i] # s[j]

SprintLists(S, n) == {s \in ArrangementsUpTo(S, n) : NoRepeat(s)}

(***************************************************************************)
(* State.                                                                  *)
(*   defaultBoardId  envVars.JIRA_BOARD_ID, fixed when the process starts  *)
(*   rq    the tool requests: for each, where its handler is suspended,    *)
(*         its locals, the collaborator calls it has issued and its result *)
(*   agg   one run of the aggregation loop: the issues, the index of the   *)
(*         next issue, the accumulators and the object returned            *)
(*   proj  one run of the projection: the sprint, the progress snapshot,   *)
(*         the clock value read and the numbers printed                    *)
(*   jira  what the collaborators answer: anything at each call (the site  *)
(*         changes between calls), or the content of a site that stays as  *)
(*         it is for the whole run                                         *)
(*   boot  the start of the process: the environment it was given, how far *)
(*         the module's top-level code has run, what it has created, and   *)
(*         the exit status if it has exited                                *)
(*   task  one call of getFullTaskContext of jira-task-summarizer: where   *)
(*         it is suspended, the issue it was given, the context it is      *)
(*         building, the lookups it has issued and those that failed, and  *)
(*         what it returned or threw                                       *)
(***************************************************************************)
VARIABLES defaultBoardId, rq, agg, proj, jira, boot, task

vars == <<defaultBoardId, rq, agg, proj, jira, boot, task>>
procVars == <<defaultBoardId, rq, jira, boot, task>>

(***************************************************************************)
(* The environment.  process.env[name] is undefined or a string; a string  *)
(* is the sequence of its characters.                                      *)
(***************************************************************************)
Unset == [set |-> FALSE, text |-> <<>>]
Text(chars) == [set |-> TRUE, text |-> chars]

\* a variant of EnvTruthy for which an empty string counts as a value
EnvTruthy_Defined(e) == e.set

\* the truthiness of process.env[name]: undefined and "" are falsy
EnvTruthy(e) == e.set /\ e.text # <<>>

DigitChars == {"0", "1", "2", "3", "4", "5", "6", "7", "8", "9"}

DigitValue(c) ==
    CASE c = "0" -> 0 [] c = "1" -> 1 [] c = "2" -> 2 [] c = "3" -> 3
      [] c = "4" -> 4 [] c = "5" -> 5 [] c = "6" -> 6 [] c = "7" -> 7
      [] c = "8" -> 8 [] c = "9" -> 9

\* how many characters at the start of chars are digits
RECURSIVE DigitPrefix(_)
DigitPrefix(chars) ==
    IF chars = <<>> \/ Head(chars) \notin DigitChars THEN 0
    ELSE 1 + DigitPrefix(Tail(chars))

RECURSIVE DecimalValue(_, _)
DecimalValue(chars, n) ==
    IF n = 0 THEN 0
    ELSE 10 * DecimalValue(chars, n - 1) + DigitValue(chars[n])

\* parseInt of a string without leading blanks, sign or 0x: the number
\* written by its leading digits, NaN when it has none
ParseInt(chars) ==
    IF DigitPrefix(chars) = 0 THEN NaN
    ELSE Fin(DecimalValue(chars, DigitPrefix(chars)))

\* requiredVars (lines 60-66)
requiredVars ==
    <<"JIRA_HOST", "JIRA_USERNAME", "JIRA_API_TOKEN", "OPENAI_API_KEY",
      "JIRA_PROJECT_KEY">>

Required == {requiredVars[i] : i \in DOMAIN requiredVars}
EnvNames == Required \cup {"JIRA_BOARD_ID"}

RECURSIVE Filter(_, _)
\* names.filter(varName => !env[varName]) (line 68)
Filter(names, env) ==
    IF names = <<>> THEN <<>>
    ELSE (IF EnvTruthy(env[Head(names)]) THEN <<>> ELSE <<Head(names)>>)
         \o Filter(Tail(names), env)

missingVars(env) == Filter(requiredVars, env)

\* the object loadEnvVars returns (lines 75-82)
EnvVarsOf(env) ==
    [name \in EnvNames |->
        IF name = "JIRA_BOARD_ID"
        THEN (IF EnvTruthy(env[name]) THEN ParseInt(env[name].text) ELSE Undef)
        ELSE env[name]]

\* the process before its first statement, in environment env
BootStart(env) ==
    [pc |-> "loadEnvVars", env |-> env, envVars |-> [name \in EnvNames |-> Undef],
     logged |-> <<>>, exitCode |-> Undefined, exitedIn |-> "",
     jiraClient |-> FALSE, openai |-> FALSE, jiraManager |-> FALSE,
     defaultBoardId |-> Undef]

\* the values the environment may give to a required variable and to
\* JIRA_BOARD_ID
RequiredValues == {Unset, Text(<<>>), Text(<<"x">>)}
BoardIdValues ==
    {Unset, Text(<<>>), Text(<<"0">>), Text(<<"1", "2">>), Text(<<"2", "x">>),
     Text(<<"a">>)}

Environments ==
    {env \in [EnvNames -> RequiredValues \cup BoardIdValues] :
        /\ \A name \in Required : env[name] \in RequiredValues
        /\ env["JIRA_BOARD_ID"] \in BoardIdValues}

\* no key, no text: the falsy string
NoKey == ""

\* the object `context` of getFullTaskContext before any key is set
NoContext == [key \in {} |-> <<>>]

\* no call of getFullTaskContext is under way
TaskIdle ==
    [pc |-> "idle", taskId |-> NoKey, type |-> NoKey, epicKey |-> NoKey,
     context |-> NoContext, calls |-> <<>>, failed |-> {},
     outcome |-> "none", returned |-> NoContext, error |-> <<>>]

\* a process that has started and serves requests
BootIdle ==
    [BootStart([name \in EnvNames |-> Text(<<"x">>)]) EXCEPT
        !.pc = "running", !.jiraClient = TRUE, !.openai = TRUE,
        !.jiraManager = TRUE,
        !.envVars = EnvVarsOf([name \in EnvNames |-> Text(<<"x">>)]),
        !.defaultBoardId = NaN]

(***************************************************************************)
(* Messages.  An error message or a result text is a sequence of parts,    *)
(* each a literal text followed by an interpolated number (or Undefined).  *)
(***************************************************************************)
T(text) == <<[t |-> text, n |-> Undefined]>>
TN(text, n) == <<[t |-> text, n |-> n]>>

\* the three tools, and the prefix each handler puts before an error message
Tools == {"getSprintSummary", "getUserTasks", "getSprintProgress"}
ErrorPrefix(tool) ==
    CASE tool = "getSprintSummary" -> T("Erro ao obter resumo da sprint: ")
      [] tool = "getUserTasks" -> T("Erro ao buscar tarefas do usuário: ")
      [] tool = "getSprintProgress" -> T("Erro ao analisar progresso da sprint: ")

\* the request of a client that sends one request at a time, and the
\* requests of two clients
Reqs == {1}
Clients == {1, 2}

NoResult == [isError |-> FALSE, text |-> <<>>]

\* a request slot with no handler running
Idle ==
    [pc |-> "idle", tool |-> "getSprintSummary", boardId |-> Undefined,
     targetBoardId |-> Undefined, tier |-> "none", sprint |-> NoSprint,
     boards |-> <<>>, activeValues |-> <<>>, recentReturned |-> <<>>, recentValues |-> <<>>,
     calls |-> <<>>, returned |-> 0, failed |-> {}, resolveError |-> <<>>,
     details |-> DetailsOf(<<>>, EmptyAcc), today |-> 0, result |-> NoResult]

\* a collaborator call: the operation and the board or sprint it is about
Call(op, arg) == [op |-> op, arg |-> arg]

\* a variant of SprintQueries that issues both sprint queries at once
SprintQueries_FanOut(target) == <<Call("active", target), Call("recent", target)>>

\* the sprint request getActiveSprint issues once it has a board: the active
\* query alone, awaited (lines 159-165) before anything else is asked
SprintQueries(target) == <<Call("active", target)>>

\* a site whose answers may change between any two calls
Live == [kind |-> "live"]

\* runs: how many times the aggregation was entered; first: what the
\* first run returned
AggIdle ==
    [pc |-> "idle", issues |-> <<>>, i |-> 1, acc |-> EmptyAcc,
     out |-> DetailsOf(<<>>, EmptyAcc), runs |-> 0, first |-> DetailsOf(<<>>, EmptyAcc)]

\* a variant of Entered in which the counters are not locals of the call
\* and keep their values from one aggregation to the next
Entered_KeepingCounters(a) == [a EXCEPT !.pc = "loop", !.i = 1, !.runs = @ + 1]

\* the aggregation is entered: its counters are fresh locals (lines 257-260)
Entered(a) == [a EXCEPT !.pc = "loop", !.i = 1, !.acc = EmptyAcc, !.runs = @ + 1]

AggStart(issues) == Entered([AggIdle EXCEPT !.issues = issues])

ProjIdle ==
    [pc |-> "idle", sprint |-> Window(Undefined, Undefined),
     progress |-> ProgressOf(0, 0), today |-> 0,
     out |-> Project(Window(Undefined, Undefined), ProgressOf(0, 0), 0)]

ProjStart(sprint, progress) ==
    [ProjIdle EXCEPT !.pc = "start", !.sprint = sprint, !.progress = progress]

(***************************************************************************)
(* The aggregation loop, over every issue list.                            *)
(***************************************************************************)
InitAggregate ==
    /\ agg \in {AggStart(l) : l \in IssueLists}
    /\ proj = ProjIdle
    /\ defaultBoardId = Undefined
    /\ rq = [r \in Reqs |-> Idle]
    /\ jira = Live
    /\ boot = BootIdle
    /\ task = TaskIdle

\* one iteration of the for loop (lines 262-280)
AggregateLoop ==
    /\ agg.pc = "loop"
    /\ agg.i <= Len(agg.issues)
    /\ agg' = [agg EXCEPT !.acc = LoopBody(@, agg.issues[agg.i]), !.i = @ + 1]
    /\ UNCHANGED <<proj, procVars>>

\* the loop is over: build the object returned (lines 283-303)
AggregateReturn ==
    /\ agg.pc = "loop"
    /\ agg.i > Len(agg.issues)
    /\ agg' = [agg EXCEPT !.pc = "done", !.out = DetailsOf(agg.issues, agg.acc)]
    /\ UNCHANGED <<proj, procVars>>

\* getSprintDetails is called once more, on the same issues
AggregateAgain ==
    /\ agg.pc = "done"
    /\ agg.runs < 2
    /\ agg' = Entered([agg EXCEPT !.first = agg.out])
    /\ UNCHANGED <<proj, procVars>>

NextAggregate == AggregateLoop \/ AggregateReturn \/ AggregateAgain

SpecAggregate == InitAggregate /\ [][NextAggregate]_vars

(***************************************************************************)
(* The projection, over every sprint window, progress and clock value.     *)
(***************************************************************************)
InitProject ==
    /\ proj \in {ProjStart(w, p) : w \in Windows, p \in Progresses}
    /\ agg = AggIdle
    /\ defaultBoardId = Undefined
    /\ rq = [r \in Reqs |-> Idle]
    /\ jira = Live
    /\ boot = BootIdle
    /\ task = TaskIdle

\* buildSprintProgressPrompt: read the clock (new Date()) and compute
BuildSprintProgressPrompt ==
    /\ proj.pc = "start"
    /\ \E today \in Todays :
         proj' = [proj EXCEPT !.pc = "done", !.today = today,
                              !.out = Project(proj.sprint, proj.progress, today)]
    /\ UNCHANGED <<agg, procVars>>

NextProject == BuildSprintProgressPrompt

SpecProject == InitProject /\ [][NextProject]_vars

(***************************************************************************)
(* The tool handlers.  A handler runs until it awaits a collaborator; each *)
(* action below is the arrival of a request or the return of the awaited   *)
(* call, followed by everything the handler does up to its next await.     *)
(***************************************************************************)
\* a number in a boolean position: undefined, 0 (and NaN) are false
Truthy(n) == n # Undefined /\ n # 0

\* a variant of TargetOf that prefers the configured board
TargetOf_DefaultFirst(boardId, default) ==
    IF Truthy(default) THEN default ELSE boardId

\* boardId || this.defaultBoardId (line 133)
TargetOf(boardId, default) == IF Truthy(boardId) THEN boardId ELSE default

\* a variant of FirstOf that takes the last element
FirstOf_Last(values) == values[Len(values)]

\* values[0] (lines 145, 169, 193)
FirstOf(values) == values[1]

\* result && result.values && result.values.length > 0 (lines 167, 181)
HasValues(resp) == resp.kind = "ok" /\ Len(resp.values) > 0

\* what a collaborator call can end in: a rejection with a message, a
\* null result, or a result with a list of values
Failure == [kind |-> "fail", values |-> <<>>, msg |-> T("Request failed with status code 401")]
Null == [kind |-> "null", values |-> <<>>, msg |-> <<>>]
Ok(values) == [kind |-> "ok", values |-> values, msg |-> <<>>]

BoardsResponses ==
    {Failure, Null} \cup {Ok(v) : v \in {s \in ArrangementsUpTo(BoardIds, 2) : NoRepeat(s)}}
ActiveResponses == {Failure, Null} \cup {Ok(v) : v \in SprintLists(ActiveSprints, 2)}
RecentResponses == {Failure, Null} \cup {Ok(v) : v \in SprintLists(OtherSprints, MaxSprints)}
IssuesResponses ==
    {Failure, Null, Ok(<<>>),
     Ok(<<Issue("Done", "Story", Fin(5)), Issue("In Progress", "Story", Fin(3))>>)}
CompletionResponses == {Failure, Null, Ok(T("<completion>"))}

\* a site that keeps its content: the board listing is boards, board 1 has
\* the sprints active and no others, board 2 has two closed sprints and no
\* active one, any further board fails; only sprint 1 has issues
Site(boards, active) ==
    [kind |-> "fixed",
     boards |-> boards,
     active |-> [b \in BoardIds |->
                    IF b = 1 THEN active ELSE IF b = 2 THEN Ok(<<>>) ELSE Failure],
     recent |-> [b \in BoardIds |->
                    IF b = 1 THEN Ok(<<>>)
                    ELSE IF b = 2
                    THEN Ok(<<Sprint(3, "closed", 1, 3), Sprint(4, "closed", 3, 5)>>)
                    ELSE Failure],
     issues |-> [id \in 1..8 |->
                    IF id = 1
                    THEN Ok(<<Issue("Done", "Story", Fin(5)),
                              Issue("In Progress", "Story", Fin(3))>>)
                    ELSE IF id = 4 THEN Ok(<<Issue("Closed", "Bug", Fin(17))>>)
                    ELSE Failure],
     completion |-> Ok(T("<completion>"))]

JiraSites ==
    {Site(boards, active) :
        boards \in {Failure, Ok(<<2, 1>>)},
        active \in {Ok(<<>>), Ok(<<Sprint(1, "active", BaseTick, BaseTick + 10 * DayTicks)>>)}}

\* what the call op about arg (a board or a sprint) can come back with
Answers(op, arg) ==
    IF jira.kind = "live"
    THEN CASE op = "getBoardsForProject" -> BoardsResponses
           [] op = "active" -> ActiveResponses
           [] op = "recent" -> RecentResponses
           [] op = "searchJira" -> IssuesResponses
           [] op = "openai" -> CompletionResponses
    ELSE CASE op = "getBoardsForProject" -> {jira.boards}
           [] op = "active" -> {jira.active[arg]}
           [] op = "recent" -> {jira.recent[arg]}
           [] op = "searchJira" -> {jira.issues[arg]}
           [] op = "openai" -> {jira.completion}

\* the board ids a request can carry after validation, and the ones the
\* environment can configure
BoardParams == {Undefined, 0} \cup BoardIds
\* the clock values a progress report may read
ReportTodays == {0, BaseTick + 6 * DayTicks}

\* q after the call op it awaits has come back with resp: one more call
\* is over, and its failure is noted when resp is one
Noted(q, op, resp) ==
    [q EXCEPT !.returned = @ + 1,
              !.failed = IF resp.kind = "fail" THEN @ \cup {op} ELSE @]

\* a variant of ResolutionFails that issues the call that just ended once
\* more instead of giving up
ResolutionFails_Retrying(q, msg) ==
    [q EXCEPT !.calls = Append(@, q.calls[Len(q.calls)])]

\* a variant of ResolutionFails that goes on to search the issues of the
\* sprint it does not have
ResolutionFails_SearchingAnyway(q, msg) ==
    [q EXCEPT !.pc = "issues",
              !.resolveError = T("Não foi possível encontrar a sprint ativa: ") \o msg,
              !.calls = Append(@, Call("searchJira", Undefined))]

\* getActiveSprint throws Error(msg): getSprintDetails replaces it (line
\* 306), the handler of getUserTasks sees it as it is; the handler turns
\* the error it catches into an error result
ResolutionFails(q, msg) ==
    [q EXCEPT !.pc = "done",
              !.resolveError = T("Não foi possível encontrar a sprint ativa: ") \o msg,
              !.result =
                  [isError |-> TRUE,
                   text |-> ErrorPrefix(q.tool) \o
                       (IF q.tool = "getUserTasks"
                        THEN T("Não foi possível encontrar a sprint ativa: ") \o msg
                        ELSE T("Não foi possível obter os detalhes da sprint"))]]

\* the inner catch of lines 194-197
ApiError(msg) == T("Erro ao buscar sprint ativa: ") \o msg

\* a variant of Resolved in which the handlers keep the current sprint in
\* one place they share: the sprint another report holds is used
Resolved_SharedSprint(q, sprint, tier) ==
    LET held == {rq[o].sprint : o \in DOMAIN rq} \ {NoSprint}
        shared == IF held = {} THEN sprint ELSE CHOOSE x \in held : TRUE
    IN [q EXCEPT !.pc = IF q.tool = "getUserTasks" THEN "userTasks" ELSE "issues",
                 !.sprint = shared,
                 !.tier = tier,
                 !.calls = Append(@, Call("searchJira", shared.id))]

\* getActiveSprint returns sprint: the caller searches its issues
Resolved(q, sprint, tier) ==
    [q EXCEPT !.pc = IF q.tool = "getUserTasks" THEN "userTasks" ELSE "issues",
              !.sprint = sprint,
              !.tier = tier,
              !.calls = Append(@, Call("searchJira", sprint.id))]

\* a variant of NoSprintsFound that returns sortedSprints[0] of an empty list
NoSprintsFound_ReturnsUndefined(q) == Resolved(q, NoSprint, "recent")

\* the unfiltered query gave no sprint: the throw of line 182, caught at
\* lines 194 and 198
NoSprintsFound(q) ==
    ResolutionFails(q, ApiError(TN("Não foram encontradas sprints para o quadro ",
                                   q.targetBoardId)))

\* a tool request arrives: the handler runs into getActiveSprint, which
\* picks the board and awaits the board listing or the active query
Receive(r) ==
    /\ rq[r].pc = "idle"
    /\ \E tool \in Tools, boardId \in BoardParams :
         LET target == TargetOf(boardId, defaultBoardId)
         IN rq' = [rq EXCEPT ![r] =
                [Idle EXCEPT !.tool = tool, !.boardId = boardId,
                             !.targetBoardId = target,
                             !.pc = IF Truthy(target) THEN "active" ELSE "boards",
                             !.calls = IF Truthy(target)
                                       THEN SprintQueries(target)
                                       ELSE <<Call("getBoardsForProject", 0)>>]]
    /\ UNCHANGED <<defaultBoardId, jira, agg, proj, boot, task>>

\* getBoardsForProject returns or fails (lines 141-150)
BoardsReturn(r) ==
    /\ rq[r].pc = "boards"
    /\ \E resp \in Answers("getBoardsForProject", 0) :
         rq' = [rq EXCEPT ![r] =
                IF HasValues(resp)
                THEN [Noted(@, "getBoardsForProject", resp) EXCEPT
                               !.boards = resp.values,
                               !.targetBoardId = FirstOf(resp.values),
                               !.pc = "active",
                               !.calls = @ \o SprintQueries(FirstOf(resp.values))]
                ELSE ResolutionFails(Noted(@, "getBoardsForProject", resp),
                         T("Não foi possível encontrar um board para o projeto. Por favor, forneça um Board ID."))]
    /\ UNCHANGED <<defaultBoardId, jira, agg, proj, boot, task>>

\* the active sprint query returns or fails (lines 162-179, 194-197)
ActiveReturn(r) ==
    /\ rq[r].pc = "active"
    /\ \E resp \in Answers("active", rq[r].targetBoardId) :
         rq' = [rq EXCEPT ![r] =
                IF resp.kind = "fail"
                THEN ResolutionFails(Noted(@, "active", resp), ApiError(resp.msg))
                ELSE IF HasValues(resp)
                THEN Resolved([Noted(@, "active", resp) EXCEPT !.activeValues = resp.values],
                              FirstOf(resp.values), "active")
                ELSE [Noted(@, "active", resp) EXCEPT
                               !.pc = "recent",
                               !.calls = Append(@, Call("recent", rq[r].targetBoardId))]]
    /\ UNCHANGED <<defaultBoardId, jira, agg, proj, boot, task>>

\* the unfiltered sprint query returns or fails (lines 176-197): the array
\* returned is sorted in place and its first element is the sprint
RecentReturn(r) ==
    /\ rq[r].pc = "recent"
    /\ \E resp \in Answers("recent", rq[r].targetBoardId) :
         rq' = [rq EXCEPT ![r] =
                IF resp.kind = "fail"
                THEN ResolutionFails(Noted(@, "recent", resp), ApiError(resp.msg))
                ELSE IF HasValues(resp)
                THEN Resolved([Noted(@, "recent", resp) EXCEPT
                                        !.recentReturned = resp.values,
                                        !.recentValues = ArraySort(resp.values)],
                              FirstOf(ArraySort(resp.values)), "recent")
                ELSE NoSprintsFound(Noted(@, "recent", resp))]
    /\ UNCHANGED <<defaultBoardId, jira, agg, proj, boot, task>>

\* result.issues || [], and [] when the search fails (lines 210-246)
IssuesOf(resp) == IF resp.kind = "ok" THEN resp.values ELSE <<>>

\* the issue search of getSprintIssues returns or fails: getSprintDetails
\* aggregates the issues, and the handler builds the prompt (reading the
\* clock for a progress report) and awaits the completion
IssuesReturn(r) ==
    /\ rq[r].pc = "issues"
    /\ \E resp \in Answers("searchJira", rq[r].sprint.id), today \in ReportTodays :
         /\ rq[r].tool # "getSprintProgress" => today = 0
         /\ rq' = [rq EXCEPT ![r] =
                [Noted(@, "searchJira", resp) EXCEPT
                     !.details = Aggregate(IssuesOf(resp)),
                     !.today = today,
                     !.pc = "openai",
                     !.calls = Append(@, Call("openai", 0))]]
    /\ UNCHANGED <<defaultBoardId, jira, agg, proj, boot, task>>

\* the issue search of getUserTasks returns or fails: the handler builds
\* the prompt and awaits the completion
UserTasksReturn(r) ==
    /\ rq[r].pc = "userTasks"
    /\ \E resp \in Answers("searchJira", rq[r].sprint.id) :
         rq' = [rq EXCEPT ![r] =
                [Noted(@, "searchJira", resp) EXCEPT
                     !.pc = "openai",
                     !.calls = Append(@, Call("openai", 0))]]
    /\ UNCHANGED <<defaultBoardId, jira, agg, proj, boot, task>>

\* what generateResponse returns (lines 449-469)
CompletionText(resp) ==
    CASE resp.kind = "fail" ->
           T("Ocorreu um erro ao gerar a análise. Tente novamente mais tarde.")
      [] resp.kind = "null" -> T("Não foi possível gerar uma resposta.")
      [] resp.kind = "ok" -> resp.values

\* the completion returns or fails: the handler returns its result
CompletionReturn(r) ==
    /\ rq[r].pc = "openai"
    /\ \E resp \in Answers("openai", 0) :
         rq' = [rq EXCEPT ![r] =
                [Noted(@, "openai", resp) EXCEPT
                     !.pc = "done",
                     !.result = [isError |-> FALSE, text |-> CompletionText(resp)]]]
    /\ UNCHANGED <<defaultBoardId, jira, agg, proj, boot, task>>

\* the result is sent to the client and the request is over
Respond(r) ==
    /\ rq[r].pc = "done"
    /\ rq' = [rq EXCEPT ![r] = Idle]
    /\ UNCHANGED <<defaultBoardId, jira, agg, proj, boot, task>>

Init ==
    /\ defaultBoardId \in BoardParams
    /\ rq = [r \in Reqs |-> Idle]
    /\ agg = AggIdle
    /\ proj = ProjIdle
    /\ jira = Live
    /\ boot = BootIdle
    /\ task = TaskIdle

\* a step of the handler of request r
Handler(r) ==
    \/ Receive(r)
    \/ BoardsReturn(r)
    \/ ActiveReturn(r)
    \/ RecentReturn(r)
    \/ IssuesReturn(r)
    \/ UserTasksReturn(r)
    \/ CompletionReturn(r)
    \/ Respond(r)

Next == \E r \in Reqs : Handler(r)

Spec == Init /\ [][Next]_vars

(***************************************************************************)
(* Two clients.  A handler is an async function (lines 481, 512, 549): at  *)
(* each await it gives the thread back, and the server then runs the       *)
(* handler of whatever request has arrived; nothing in main or in the      *)
(* handlers (lines 477-592) holds a request back while another one is      *)
(* suspended.  The site keeps its content during the run.                  *)
(***************************************************************************)
InitConcurrent ==
    /\ defaultBoardId \in {Undefined, 1}
    /\ rq = [r \in Clients |-> Idle]
    /\ agg = AggIdle
    /\ proj = ProjIdle
    /\ jira \in JiraSites
    /\ boot = BootIdle
    /\ task = TaskIdle

NextConcurrent == \E r \in Clients : Handler(r)

SpecConcurrent == InitConcurrent /\ [][NextConcurrent]_vars

(***************************************************************************)
(* The start of the process (lines 48-108, 473-474 and 576-594), in every  *)
(* environment.                                                            *)
(***************************************************************************)
InitStartup ==
    /\ boot \in {BootStart(env) : env \in Environments}
    /\ defaultBoardId = Undefined
    /\ rq = [r \in Reqs |-> Idle]
    /\ agg = AggIdle
    /\ proj = ProjIdle
    /\ jira = Live
    /\ task = TaskIdle

\* const envVars = loadEnvVars() (lines 59-86)
LoadEnvVars ==
    /\ boot.pc = "loadEnvVars"
    /\ LET missing == missingVars(boot.env) IN
         IF Len(missing) > 0
         THEN boot' = [boot EXCEPT !.pc = "exited", !.logged = missing,
                                   !.exitCode = 1, !.exitedIn = "loadEnvVars"]
         ELSE boot' = [boot EXCEPT !.pc = "clients",
                                   !.envVars = EnvVarsOf(boot.env)]
    /\ UNCHANGED <<defaultBoardId, rq, agg, proj, jira, task>>

\* new JiraClient, new OpenAI (lines 97-108), then new JiraSprintManager
\* with envVars.JIRA_BOARD_ID (lines 116-121, 473-474)
CreateClients ==
    /\ boot.pc = "clients"
    /\ boot' = [boot EXCEPT !.pc = "main", !.jiraClient = TRUE,
                            !.openai = TRUE, !.jiraManager = TRUE,
                            !.defaultBoardId = boot.envVars["JIRA_BOARD_ID"]]
    /\ UNCHANGED <<defaultBoardId, rq, agg, proj, jira, task>>

\* main (lines 576-592): the server connects to its transport, or the
\* connection is rejected and the process exits with status 1
Main ==
    /\ boot.pc = "main"
    /\ \/ boot' = [boot EXCEPT !.pc = "running"]
       \/ boot' = [boot EXCEPT !.pc = "exited", !.exitCode = 1,
                               !.exitedIn = "main"]
    /\ UNCHANGED <<defaultBoardId, rq, agg, proj, jira, task>>

NextStartup == LoadEnvVars \/ CreateClients \/ Main

SpecStartup == InitStartup /\ [][NextStartup]_vars

(***************************************************************************)
(* jira-task-summarizer: JiraTaskManager.getFullTaskContext.  A lookup     *)
(* ends in a rejection, in null, or in a value; a wrapper of the manager   *)
(* turns that into a value it returns or an error it throws.               *)
(***************************************************************************)
Value(v) == [kind |-> "value", value |-> v, msg |-> <<>>]
Throw(msg) == [kind |-> "throw", value |-> Null, msg |-> msg]

\* an issue as findIssue and searchJira return it
JiraIssue(key, type, description, parent, epicKey) ==
    [key |-> key, type |-> type, summary |-> "summary of " \o key,
     description |-> description, status |-> "To Do", parent |-> parent,
     epicKey |-> epicKey]

TaskIds == {"T-1", "T-2"}

\* what findIssue answers for the issue key: a rejection, null, or an issue
\* with that key
FindIssueResponses(key) ==
    {Failure, Null} \cup
    {Ok(JiraIssue(key, type, description, parent, epicKey)) :
        type \in {"Story", "Epic", "Task", "Bug", "Sub-task"},
        description \in {NoKey, "text"},
        parent \in {NoKey, "P-1"}, epicKey \in {NoKey, "E-1"}}

\* what searchJira answers: a rejection, null, a result without issues, or
\* a result with a list of subtasks
SearchResult(has, issues) == [has |-> has, issues |-> issues]
SearchResponses ==
    {Failure, Null, Ok(SearchResult(FALSE, <<>>))}
        \cup {Ok(SearchResult(TRUE, l)) : l \in
                {<<>>, <<JiraIssue("S-1", "Sub-task", "text", "T-1", NoKey)>>,
                 <<JiraIssue("S-1", "Sub-task", "text", "T-1", NoKey),
                   JiraIssue("S-2", "Sub-task", NoKey, "T-1", NoKey)>>}}

\* getIssue (lines 77-84): the issue found, or an error in place of the
\* rejection
getIssue(issueId, resp) ==
    IF resp.kind = "fail"
    THEN Throw(<<"Não foi possível encontrar a tarefa ", issueId>>)
    ELSE Value(resp)

\* a variant of getEpic that throws as getIssue does
getEpic_Throwing(epicKey, resp) ==
    IF resp.kind = "fail"
    THEN Throw(<<"Não foi possível encontrar a tarefa ", epicKey>>)
    ELSE Value(resp)

\* getEpic (lines 86-93): the issue found, or null in place of the rejection
getEpic(epicKey, resp) ==
    IF resp.kind = "fail" THEN Value(Null) ELSE Value(resp)

\* getSubtasks (lines 95-104): result.issues || [], and [] when the search
\* is rejected or result.issues cannot be read
getSubtasks(issueId, resp) ==
    IF resp.kind = "ok" /\ resp.values.has
    THEN Value(resp.values.issues)
    ELSE Value(<<>>)

\* description || "Sem descrição"
DescriptionOf(issue) ==
    IF issue.description = NoKey THEN "Sem descrição" ELSE issue.description

\* the entries of the context (lines 111-117, 123-127, 135-139, 146-151)
TaskEntry(issue) ==
    [id |-> issue.key, type |-> issue.type, summary |-> issue.summary,
     description |-> DescriptionOf(issue), status |-> issue.status]
RelatedEntry(issue) ==
    [id |-> issue.key, type |-> NoKey, summary |-> issue.summary,
     description |-> DescriptionOf(issue), status |-> NoKey]
SubtaskEntry(issue) ==
    [id |-> issue.key, type |-> NoKey, summary |-> issue.summary,
     description |-> DescriptionOf(issue), status |-> issue.status]

\* context[key] = entries
WithEntry(context, key, entries) ==
    [k \in DOMAIN context \cup {key} |-> IF k = key THEN entries ELSE context[k]]

\* the catch of lines 155-158: whatever was thrown is replaced, and the
\* context built so far is dropped
ContextFails(q) ==
    [q EXCEPT !.pc = "done", !.outcome = "thrown", !.returned = NoContext,
              !.error = <<"Não foi possível obter o contexto completo da tarefa ",
                          q.taskId>>]

\* return context (line 154)
ContextReturns(q) ==
    [q EXCEPT !.pc = "done", !.outcome = "returned", !.returned = q.context]

\* lines 143-154: the subtasks are looked up for a story, an epic or a task
ToSubtasks(q) ==
    IF q.type \in {"Story", "Epic", "Task"}
    THEN [q EXCEPT !.pc = "subtasks",
                   !.calls = Append(@, Call("searchJira", q.taskId))]
    ELSE ContextReturns(q)

\* lines 130-141: the epic is looked up when the issue has an epic link
ToEpic(q) ==
    IF q.epicKey # NoKey
    THEN [q EXCEPT !.pc = "epic", !.calls = Append(@, Call("findEpic", q.epicKey))]
    ELSE ToSubtasks(q)

\* q after the lookup op has ended in resp
Ended(q, op, resp) ==
    [q EXCEPT !.failed = IF resp.kind = "fail" THEN @ \cup {op} ELSE @]

InitTask ==
    /\ task = TaskIdle
    /\ boot = BootIdle
    /\ defaultBoardId = Undefined
    /\ rq = [r \in Reqs |-> Idle]
    /\ agg = AggIdle
    /\ proj = ProjIdle
    /\ jira = Live

\* getFullTaskContext(taskId) is called and awaits getIssue (line 109)
GetFullTaskContext ==
    /\ task.pc = "idle"
    /\ \E taskId \in TaskIds :
         task' = [TaskIdle EXCEPT !.pc = "issue", !.taskId = taskId,
                                  !.calls = <<Call("findIssue", taskId)>>]
    /\ UNCHANGED <<defaultBoardId, rq, agg, proj, jira, boot>>

\* the lookup of the main issue ends (lines 109-128): reading the fields of
\* null throws
IssueReturn ==
    /\ task.pc = "issue"
    /\ \E resp \in FindIssueResponses(task.taskId) :
         LET got == getIssue(task.taskId, resp)
             q == Ended(task, "issue", resp)
         IN task' =
              IF got.kind = "throw" \/ got.value.kind = "null"
              THEN ContextFails(q)
              ELSE LET issue == got.value.values
                       started == [q EXCEPT
                           !.type = issue.type, !.epicKey = issue.epicKey,
                           !.context = WithEntry(NoContext, "task", <<TaskEntry(issue)>>)]
                   IN IF issue.parent # NoKey
                      THEN [started EXCEPT
                               !.pc = "parent",
                               !.calls = Append(@, Call("findIssue", issue.parent))]
                      ELSE ToEpic(started)
    /\ UNCHANGED <<defaultBoardId, rq, agg, proj, jira, boot>>

\* the lookup of the parent ends (lines 122-128)
ParentReturn ==
    /\ task.pc = "parent"
    /\ \E resp \in FindIssueResponses(task.calls[Len(task.calls)].arg) :
         LET got == getIssue(task.calls[Len(task.calls)].arg, resp)
             q == Ended(task, "parent", resp)
         IN task' =
              IF got.kind = "throw" \/ got.value.kind = "null"
              THEN ContextFails(q)
              ELSE ToEpic([q EXCEPT !.context =
                       WithEntry(@, "parent", <<RelatedEntry(got.value.values)>>)])
    /\ UNCHANGED <<defaultBoardId, rq, agg, proj, jira, boot>>

\* the lookup of the epic ends (lines 133-141)
EpicReturn ==
    /\ task.pc = "epic"
    /\ \E resp \in FindIssueResponses(task.epicKey) :
         LET got == getEpic(task.epicKey, resp)
             q == Ended(task, "epic", resp)
         IN task' =
              IF got.kind = "throw" THEN ContextFails(q)
              ELSE IF got.value.kind = "null" THEN ToSubtasks(q)
              ELSE ToSubtasks([q EXCEPT !.context =
                       WithEntry(@, "epic", <<RelatedEntry(got.value.values)>>)])
    /\ UNCHANGED <<defaultBoardId, rq, agg, proj, jira, boot>>

RECURSIVE MapSubtasks(_)
\* subtasks.map(...) (lines 146-151)
MapSubtasks(subtasks) ==
    IF subtasks = <<>> THEN <<>>
    ELSE <<SubtaskEntry(Head(subtasks))>> \o MapSubtasks(Tail(subtasks))

\* the search of the subtasks ends (lines 145-154)
SubtasksReturn ==
    /\ task.pc = "subtasks"
    /\ \E resp \in SearchResponses :
         LET got == getSubtasks(task.taskId, resp)
             q == Ended(task, "subtasks", resp)
         IN task' =
              IF got.kind = "throw" THEN ContextFails(q)
              ELSE ContextReturns([q EXCEPT !.context =
                       WithEntry(@, "subtasks", MapSubtasks(got.value))])
    /\ UNCHANGED <<defaultBoardId, rq, agg, proj, jira, boot>>

NextTask ==
    \/ GetFullTaskContext
    \/ IssueReturn
    \/ ParentReturn
    \/ EpicReturn
    \/ SubtasksReturn

SpecTask == InitTask /\ [][NextTask]_vars

(***************************************************************************)
(* Claims about the resolver, checked under Spec.                          *)
(***************************************************************************)
\* the request has issued the call op
Called(q, op) == \E i \in DOMAIN q.calls : q.calls[i].op = op

\* C1: when the active sprint query returns one or more sprints, the sprint
\* resolved is the first of them, whatever the dates, and the unfiltered
\* query is not issued
C1_ActiveFirst ==
    \A r \in Reqs :
        rq[r].activeValues # <<>> =>
            /\ rq[r].tier = "active"
            /\ rq[r].sprint = rq[r].activeValues[1]
            /\ ~Called(rq[r], "recent")

\* the active query has returned the older active sprint before the newer
\* one, and the older one is the sprint resolved
C1_Witness ==
    \E r \in Reqs :
        /\ Len(rq[r].activeValues) = 2
        /\ rq[r].activeValues[1].startDate < rq[r].activeValues[2].startDate
        /\ rq[r].sprint = rq[r].activeValues[1]
        /\ rq[r].pc = "openai"

\* C2: in the fallback tier the sprint resolved is one with the greatest
\* startDate among the dated sprints of the list returned; a sprint without
\* startDate is resolved only when no sprint of the list has one
C2_FallbackMostRecent ==
    \A r \in Reqs :
        rq[r].tier = "recent" =>
            LET list == rq[r].recentReturned
                dated == {i \in DOMAIN list : list[i].startDate # Undefined}
            IN /\ \E i \in DOMAIN list : rq[r].sprint = list[i]
               /\ dated # {} =>
                    /\ rq[r].sprint.startDate # Undefined
                    /\ \A i \in dated : rq[r].sprint.startDate >= list[i].startDate
               /\ rq[r].sprint.startDate = Undefined => dated = {}

\* the unfiltered query has returned an undated sprint, then an older and
\* then a newer dated one, and the newest is the sprint resolved
C2_Witness ==
    \E r \in Reqs :
        /\ rq[r].tier = "recent"
        /\ Len(rq[r].recentReturned) = 3
        /\ rq[r].recentReturned[1].startDate = Undefined
        /\ rq[r].recentReturned[2].startDate # Undefined
        /\ rq[r].recentReturned[2].startDate < rq[r].recentReturned[3].startDate
        /\ rq[r].sprint = rq[r].recentReturned[3]

\* C3: the target board is the board id of the request if one is supplied,
\* else the configured one, else the first board of the board listing; and
\* every sprint query of the request is made on that board
C3_BoardPrecedence ==
    \A r \in Reqs :
        LET q == rq[r]
            sprintQueries == {i \in DOMAIN q.calls : q.calls[i].op \in {"active", "recent"}}
        IN q.pc # "idle" =>
            /\ q.boardId \in BoardIds =>
                 q.targetBoardId = q.boardId /\ ~Called(q, "getBoardsForProject")
            /\ (q.boardId = Undefined /\ defaultBoardId \in BoardIds) =>
                 q.targetBoardId = defaultBoardId /\ ~Called(q, "getBoardsForProject")
            /\ (q.boardId = Undefined /\ defaultBoardId = Undefined) =>
                 /\ q.calls[1].op = "getBoardsForProject"
                 /\ sprintQueries # {} => q.boards # <<>> /\ q.targetBoardId = q.boards[1]
            /\ \A i \in sprintQueries : q.calls[i].arg = q.targetBoardId

\* each tier has been used: a request with a board id other than the
\* configured one has queried that board twice, and a request without any
\* has queried the first board of a listing of two
C3_Witness ==
    \E r \in Reqs :
        /\ Called(rq[r], "recent")
        /\ \/ /\ rq[r].boardId \in BoardIds
              /\ defaultBoardId \in BoardIds \ {rq[r].boardId}
              /\ rq[r].calls[2] = Call("recent", rq[r].boardId)
           \/ /\ rq[r].boardId = Undefined
              /\ defaultBoardId = Undefined
              /\ Len(rq[r].boards) = 2
              /\ rq[r].calls[3] = Call("recent", rq[r].boards[1])

(***************************************************************************)
(* Claims about the aggregation loop, checked under SpecAggregate.         *)
(***************************************************************************)
\* the story points of an issue as the specification counts them
PointsOrZero(issue) == IF issue.points.k = "undef" THEN 0 ELSE issue.points.v

RECURSIVE SumPoints(_, _)
\* the sum of the story points of the issues at the indices I
SumPoints(issues, I) ==
    IF I = {} THEN 0
    ELSE LET i == CHOOSE x \in I : TRUE
         IN PointsOrZero(issues[i]) + SumPoints(issues, I \ {i})

ClaimDoneLabels == {"Done", "Closed", "Resolved", "Completed", "Finalizado", "Concluído"}

\* C4: after the pass totalPoints is the sum of the story points of all
\* issues (an absent value counts 0) and completedPoints the sum over exactly
\* the issues whose status is, letter for letter, one of the six done labels
C4_PointSums ==
    agg.pc = "done" =>
        /\ agg.out.totalPoints = SumPoints(agg.issues, DOMAIN agg.issues)
        /\ agg.out.completedPoints =
               SumPoints(agg.issues,
                         {i \in DOMAIN agg.issues : agg.issues[i].status \in ClaimDoneLabels})

\* a finished pass over a done issue, a lower or upper case "done" issue
\* with points and an issue without points
C4_Witness ==
    /\ agg.pc = "done"
    /\ \E i, j, h \in DOMAIN agg.issues :
         /\ agg.issues[i].status = "Done"
         /\ agg.issues[j].status \in {"done", "DONE"}
         /\ agg.issues[h].points = Undef
    /\ agg.out.completedPoints = 5

\* C5: percentComplete is 100 * completedPoints / totalPoints rounded to the
\* nearest integer, a half rounded up, when totalPoints > 0, and 0 otherwise
C5_PercentIsRoundHalfUp ==
    agg.pc = "done" =>
        agg.out.percentComplete =
            IF agg.out.totalPoints > 0
            THEN RoundHalfUp(100 * agg.out.completedPoints, agg.out.totalPoints)
            ELSE 0

RECURSIVE SumCounts(_, _)
SumCounts(o, K) ==
    IF K = {} THEN 0
    ELSE LET key == CHOOSE x \in K : TRUE
         IN o[key].v + SumCounts(o, K \ {key})

\* every value of the histogram o is a number, and they add up to n
CountsSumTo(o, n) ==
    /\ \A key \in DOMAIN o : IsFin(o[key])
    /\ SumCounts(o, DOMAIN o) = n

\* C6: the status counts add up to the number of issues, and so do the type
\* counts, and that number is the total reported
C6_CountsSumToLength ==
    agg.pc = "done" =>
        /\ CountsSumTo(agg.out.byStatus, Len(agg.issues))
        /\ CountsSumTo(agg.out.byType, Len(agg.issues))
        /\ agg.out.total = Len(agg.issues)

\* C7: percentComplete is an integer from 0 to 100 whenever
\* totalPoints >= completedPoints >= 0
C7_PercentInRange ==
    (agg.pc = "done" /\ agg.out.totalPoints >= agg.out.completedPoints
                     /\ agg.out.completedPoints >= 0)
        => agg.out.percentComplete \in 0..100

\* a finished pass with some but not all points completed
C7_Witness ==
    /\ agg.pc = "done"
    /\ agg.out.completedPoints = 23
    /\ agg.out.totalPoints = 40
    /\ agg.out.percentComplete = 57

(***************************************************************************)
(* Claims about the projection, checked under SpecProject.                 *)
(***************************************************************************)
Dated(sprint) == sprint.startDate # Undefined /\ sprint.endDate # Undefined

\* C8: pointsPerDay is completedPoints / max(1, daysTotal - daysLeft), for
\* every dated sprint and every value of the clock
C8_PointsPerDayDivisor ==
    (proj.pc = "done" /\ Dated(proj.sprint)) =>
        proj.out.pointsPerDay.num * Max(1, proj.out.totalDays.v - proj.out.daysLeft.v)
            = proj.progress.completedPoints * proj.out.pointsPerDay.den

\* C9: when daysTotal = 0 every number of the projection is defined: no
\* NaN and no infinity
C9_ZeroLengthSprintGuarded ==
    (proj.pc = "done" /\ proj.out.totalDays = Fin(0)) =>
        /\ IsFin(proj.out.daysLeft)
        /\ IsFin(proj.out.percentTimeElapsed)
        /\ IsFin(proj.out.projectedCompletion)
        /\ IsFin(proj.out.burndownDifference)

\* C10: for a dated sprint daysTotal = floor((endDate - startDate) / day),
\* daysLeft = max(0, floor((endDate - now) / day)) and is never negative, and
\* for daysTotal > 0 percentTimeElapsed is 100 * (daysTotal - daysLeft) /
\* daysTotal rounded to the nearest integer
C10_DayArithmetic ==
    (proj.pc = "done" /\ Dated(proj.sprint)) =>
        LET daysTotal == (proj.sprint.endDate - proj.sprint.startDate) \div DayTicks
            daysLeft == Max(0, (proj.sprint.endDate - proj.today) \div DayTicks)
        IN /\ proj.out.totalDays = Fin(daysTotal)
           /\ proj.out.daysLeft = Fin(daysLeft)
           /\ daysLeft >= 0
           /\ daysTotal > 0 =>
                proj.out.percentTimeElapsed
                    = Fin(RoundHalfUp(100 * (daysTotal - daysLeft), daysTotal))

Fetched(q) ==
    {q.activeValues[i] : i \in DOMAIN q.activeValues}
        \cup {q.recentReturned[i] : i \in DOMAIN q.recentReturned}

\* getActiveSprint has thrown / has returned a sprint
ResolutionFailed(q) == q.resolveError # <<>>
ResolutionReturned(q) == q.pc \in {"issues", "userTasks", "openai"} \/ q.tier # "none"

\* C12: the resolver fails, and returns no sprint, when the board listing
\* it needs yields no board (and then no sprint query is issued) and when
\* neither the active nor the unfiltered query yields a sprint; what it
\* returns is never an absent sprint
C12_FailsWithoutSprint ==
    \A r \in Reqs :
        LET q == rq[r]
        IN /\ (Called(q, "getBoardsForProject") /\ q.pc # "boards" /\ q.boards = <<>>) =>
                /\ ResolutionFailed(q) /\ ~ResolutionReturned(q)
                /\ ~Called(q, "active") /\ ~Called(q, "recent")
           /\ (Called(q, "recent") /\ q.pc # "recent" /\ q.recentReturned = <<>>) =>
                ResolutionFailed(q) /\ ~ResolutionReturned(q)
           /\ ResolutionFailed(q) => q.sprint = NoSprint /\ q.result.isError
           /\ ResolutionReturned(q) =>
                ~ResolutionFailed(q) /\ q.sprint # NoSprint /\ q.sprint \in Fetched(q)

\* a board was discovered, no sprint is active on it and the unfiltered
\* query answered with an empty list, without failing
C12_Witness ==
    \E r \in Reqs :
        /\ rq[r].boards # <<>>
        /\ Called(rq[r], "recent")
        /\ rq[r].pc = "done"
        /\ rq[r].failed = {}
        /\ ResolutionFailed(rq[r])
        /\ rq[r].result.isError

\* the message text contains the message part, part for part
Contains(text, part) ==
    \E i \in 0..(Len(text) - Len(part)) : SubSeq(text, i + 1, i + Len(part)) = part

\* the collaborator calls of the resolution
ResolutionCalls == {"getBoardsForProject", "active", "recent"}

\* C13: when the board listing, the active query or the unfiltered query
\* fails, the resolver fails with an error whose message contains the
\* message of that failure
C13_FailureWrapsCause ==
    \A r \in Reqs :
        rq[r].failed \cap ResolutionCalls # {} =>
            /\ ResolutionFailed(rq[r])
            /\ Contains(rq[r].resolveError, Failure.msg)

\* resolution has failed because the target board has no sprint at all
NoSprintForBoard(q) ==
    /\ q.pc = "done"
    /\ Called(q, "recent")
    /\ "recent" \notin q.failed
    /\ q.recentReturned = <<>>
    /\ ResolutionFailed(q)

\* C14: when resolution fails because board X has no sprint, the error text
\* every tool delivers carries the resolver's message as it is, with the
\* board id X in it
C14_ResolutionErrorSurfacedVerbatim ==
    \A r \in Reqs :
        NoSprintForBoard(rq[r]) =>
            /\ rq[r].result.isError
            /\ Contains(rq[r].result.text, rq[r].resolveError)
            /\ \E i \in DOMAIN rq[r].result.text :
                   rq[r].result.text[i].n = rq[r].targetBoardId

\* C15: when the issue search for the resolved sprint fails, the request
\* ends in an error result and not in a report
C15_IssueSearchFailureSurfaced ==
    \A r \in Reqs :
        (rq[r].pc = "done" /\ "searchJira" \in rq[r].failed) => rq[r].result.isError

\* the resolution, the issue search or the text generation of the request
\* has failed
SomethingFailed(q) == ResolutionFailed(q) \/ q.failed # {}

\* C16: no failure crashes the process: an invocation in which resolution,
\* issue fetching or text generation fails ends with a result that has
\* isError set and a text, and every invocation ends with a result
C16_FailuresEndInErrorResult ==
    \A r \in Reqs :
        rq[r].pc = "done" =>
            /\ rq[r].result.text # <<>>
            /\ SomethingFailed(rq[r]) => rq[r].result.isError

\* C17: the resolver mutates nothing it has fetched: the unfiltered sprint
\* list holds the same elements in the same order as when the collaborator
\* returned it
C17_FetchedListsUnchanged ==
    \A r \in Reqs : rq[r].recentValues = rq[r].recentReturned

(***************************************************************************)
(* Claims about the order of the collaborator calls, checked under Spec.   *)
(***************************************************************************)
\* the calls of the request that have been issued and have not come back
InFlight(q) == Len(q.calls) - q.returned

\* where a handler is suspended on a collaborator call
Awaiting == {"boards", "active", "recent", "issues", "userTasks", "openai"}

\* C20: the calls of one report are strictly sequential: never are two of
\* them in flight, a call is in flight exactly while the handler awaits it,
\* and the issue search is issued only once a sprint is resolved, right
\* after the sprint query that resolved it
C20_CallsSequential ==
    \A r \in Reqs :
        LET q == rq[r]
        IN /\ InFlight(q) \in {0, 1}
           /\ InFlight(q) = 1 <=> q.pc \in Awaiting
           /\ \A i \in DOMAIN q.calls :
                  q.calls[i].op = "searchJira" =>
                      /\ q.sprint # NoSprint
                      /\ q.calls[i].arg = q.sprint.id
                      /\ i > 1
                      /\ q.calls[i - 1].op \in {"active", "recent"}
                      /\ q.returned >= i - 1

\* a report that needed all four calls: the board listing, the active
\* query and the unfiltered query are over and the issue search is awaited
C20_Witness ==
    \E r \in Reqs :
        /\ rq[r].pc = "issues"
        /\ Len(rq[r].calls) = 4
        /\ rq[r].calls[1].op = "getBoardsForProject"
        /\ rq[r].calls[3].op = "recent"
        /\ rq[r].calls[4].op = "searchJira"
        /\ rq[r].returned = 3

(***************************************************************************)
(* Claims about concurrent reports, checked under SpecConcurrent.          *)
(***************************************************************************)
\* the requests whose report is being computed
ReportsInFlight == {r \in DOMAIN rq : rq[r].pc \in Awaiting}

\* C18: at most one report is in flight at any time: a request that arrives
\* while another is suspended on a collaborator call is not started before
\* the other is over
C18_OneReportInFlight == Cardinality(ReportsInFlight) <= 1

\* the sprint and the details of a report on boardId computed alone, from
\* the first call to the last, against the content of the site
AloneRun(boardId) ==
    LET configured == TargetOf(boardId, defaultBoardId)
        target == IF Truthy(configured) THEN configured
                  ELSE IF HasValues(jira.boards) THEN FirstOf(jira.boards.values)
                  ELSE Undefined
        sprint == IF target = Undefined THEN NoSprint
                  ELSE IF jira.active[target].kind = "fail" THEN NoSprint
                  ELSE IF HasValues(jira.active[target])
                       THEN FirstOf(jira.active[target].values)
                  ELSE IF HasValues(jira.recent[target])
                       THEN FirstOf(ArraySort(jira.recent[target].values))
                  ELSE NoSprint
    IN [sprint |-> sprint,
        details |-> IF sprint = NoSprint THEN DetailsOf(<<>>, EmptyAcc)
                    ELSE Aggregate(IssuesOf(jira.issues[sprint.id]))]

\* C19: the reports share no mutable state: however two reports interleave
\* at their awaits, the sprint, the counts and the progress of each are
\* those of the same report run alone against the same answers
C19_ReportsIndependent ==
    \A r \in DOMAIN rq :
        rq[r].pc \in {"openai", "done"} =>
            /\ rq[r].sprint = AloneRun(rq[r].boardId).sprint
            /\ rq[r].tool # "getUserTasks" =>
                   rq[r].details = AloneRun(rq[r].boardId).details

\* two reports on different boards have interleaved and both have their
\* sprint and their details: one has the active sprint of board 1, the
\* other the most recent sprint of board 2
C19_Witness ==
    /\ rq[1].pc = "openai" /\ rq[2].pc = "openai"
    /\ rq[1].tool = "getSprintSummary" /\ rq[2].tool = "getSprintProgress"
    /\ rq[1].sprint.id = 1 /\ rq[2].sprint.id = 4
    /\ rq[1].details.percentComplete = 63
    /\ rq[2].details.percentComplete = 100

(***************************************************************************)
(* Further claims about the calls of a report, checked under Spec.         *)
(***************************************************************************)
\* how many times the request has issued the call op
TimesCalled(q, op) == Cardinality({i \in DOMAIN q.calls : q.calls[i].op = op})

\* C21: no retry: in one report the board listing, the active query, the
\* unfiltered query and the issue search are each issued at most once, also
\* when the call fails
C21_NoRetry ==
    \A r \in Reqs :
        \A op \in ResolutionCalls \cup {"searchJira"} : TimesCalled(rq[r], op) <= 1

\* a report whose unfiltered query failed and which is over: the query was
\* issued once, and the active query before it once
C21_Witness ==
    \E r \in Reqs :
        /\ rq[r].pc = "done"
        /\ "recent" \in rq[r].failed
        /\ TimesCalled(rq[r], "recent") = 1
        /\ TimesCalled(rq[r], "active") = 1

\* the sprint has no startDate
Undated(sprint) == sprint.startDate = Undefined

\* C22: the sort of the fallback tier keeps the sprints without startDate
\* in the order the collaborator returned them, so when no sprint of the
\* list has a startDate the first of the list is the sprint resolved
C22_UndatedKeepOrder ==
    \A r \in Reqs :
        rq[r].tier = "recent" =>
            /\ SelectSeq(rq[r].recentValues, Undated)
                   = SelectSeq(rq[r].recentReturned, Undated)
            /\ (\A i \in DOMAIN rq[r].recentReturned : Undated(rq[r].recentReturned[i]))
                   => rq[r].sprint = rq[r].recentReturned[1]

\* the unfiltered query has returned two undated sprints around a dated
\* one, the higher id first: the dated one is resolved and the undated ones
\* follow it in the order returned
C22_Witness ==
    \E r \in Reqs :
        /\ rq[r].tier = "recent"
        /\ Len(rq[r].recentReturned) = 3
        /\ Undated(rq[r].recentReturned[1]) /\ rq[r].recentReturned[1].id = 8
        /\ ~Undated(rq[r].recentReturned[2])
        /\ Undated(rq[r].recentReturned[3]) /\ rq[r].recentReturned[3].id = 7
        /\ rq[r].recentValues[2].id = 8
        /\ rq[r].recentValues[3].id = 7

(***************************************************************************)
(* Further claims about the aggregation, checked under SpecAggregate.      *)
(***************************************************************************)
\* C23: the aggregation of an empty issue list ends, with no status and no
\* type counted, completedPoints = 0, totalPoints = 0 and percentComplete = 0
C23_EmptyListAllZero ==
    (agg.pc = "done" /\ agg.issues = <<>>) =>
        /\ DOMAIN agg.out.byStatus = {}
        /\ DOMAIN agg.out.byType = {}
        /\ agg.out.total = 0
        /\ agg.out.completedPoints = 0
        /\ agg.out.totalPoints = 0
        /\ agg.out.percentComplete = 0

\* the pass over the empty list is over, without an iteration
C23_Witness ==
    /\ agg.pc = "done"
    /\ agg.issues = <<>>
    /\ agg.i = 1
    /\ agg.out.percentComplete = 0

\* C24: aggregating the same issue list a second time returns the same
\* counts and the same progress as the first time: no counter survives
\* from one aggregation to the next
C24_SecondRunSameOutput ==
    (agg.pc = "done" /\ agg.runs = 2) => agg.out = agg.first

\* the second aggregation of a list of three issues with points is over
C24_Witness ==
    /\ agg.pc = "done"
    /\ agg.runs = 2
    /\ Len(agg.issues) = 3
    /\ agg.out.totalPoints > 0
    /\ agg.first.total = 3

(***************************************************************************)
(* A claim about the start of the process, checked under SpecStartup.      *)
(***************************************************************************)
SomeRequiredMissing ==
    \E name \in Required : ~boot.env[name].set \/ boot.env[name].text = <<>>

\* C25: once the environment has been read, the process has exited with
\* status 1 without having created any client exactly when one of the five
\* required variables is missing or empty; otherwise it goes on to create
\* its clients and to start, whatever JIRA_BOARD_ID is, and an absent
\* JIRA_BOARD_ID leaves the default board id undefined
C25_ExitsIffRequiredMissing ==
    boot.pc # "loadEnvVars" =>
        /\ SomeRequiredMissing =>
             /\ boot.pc = "exited" /\ boot.exitCode = 1
             /\ boot.exitedIn = "loadEnvVars"
             /\ ~boot.jiraClient /\ ~boot.openai /\ ~boot.jiraManager
        /\ ~SomeRequiredMissing =>
             /\ boot.exitedIn # "loadEnvVars"
             /\ boot.pc \in {"clients", "main", "running"} \/ boot.exitedIn = "main"
             /\ boot.pc \in {"main", "running"} =>
                  /\ boot.jiraClient /\ boot.openai
                  /\ ~boot.env["JIRA_BOARD_ID"].set => boot.defaultBoardId = Undef

\* the process has exited because OPENAI_API_KEY alone is empty, with a
\* board id given
C25_Witness ==
    /\ boot.pc = "exited"
    /\ boot.exitCode = 1
    /\ boot.logged = <<"OPENAI_API_KEY">>
    /\ boot.env["OPENAI_API_KEY"] = Text(<<>>)
    /\ boot.env["JIRA_BOARD_ID"] = Text(<<"1", "2">>)

(***************************************************************************)
(* Further claims about the histograms and the sums, checked under         *)
(* SpecAggregate.                                                          *)
(***************************************************************************)
Statuses == {agg.issues[j].status : j \in DOMAIN agg.issues}
Types == {agg.issues[j].type : j \in DOMAIN agg.issues}

WithStatus(label) == {j \in DOMAIN agg.issues : agg.issues[j].status = label}
WithType(label) == {j \in DOMAIN agg.issues : agg.issues[j].type = label}

\* C26: the keys of the status counts are exactly the status labels seen,
\* each mapped to the number of issues carrying it, whatever the label
\* text, and likewise for the type counts
C26_CountsPerObservedLabel ==
    agg.pc = "done" =>
        /\ DOMAIN agg.out.byStatus = Statuses
        /\ DOMAIN agg.out.byType = Types
        /\ \A label \in Statuses :
             agg.out.byStatus[label] = Fin(Cardinality(WithStatus(label)))
        /\ \A label \in Types :
             agg.out.byType[label] = Fin(Cardinality(WithType(label)))

NoNegativePoints == \A j \in DOMAIN agg.issues : StoryPoints(agg.issues[j]) >= 0

\* C27: after the pass over a list whose story points are all non-negative,
\* completedPoints is at most totalPoints
C27_CompletedAtMostTotal ==
    (agg.pc = "done" /\ NoNegativePoints)
        => agg.out.completedPoints <= agg.out.totalPoints

\* a finished pass over three issues without negative points, one of them
\* without points, some done and some open
C27_Witness ==
    /\ agg.pc = "done"
    /\ NoNegativePoints
    /\ Len(agg.issues) = 3
    /\ \E j \in DOMAIN agg.issues : agg.issues[j].points = Undef
    /\ agg.out.completedPoints > 0
    /\ agg.out.completedPoints < agg.out.totalPoints

(***************************************************************************)
(* A further claim about the calls of a report, checked under Spec.        *)
(***************************************************************************)
\* the position of the call op among the calls of q (0 when not issued)
IndexOfCall(q, op) ==
    IF Called(q, op) THEN CHOOSE i \in DOMAIN q.calls : q.calls[i].op = op ELSE 0

\* the call op of q has come back
HasReturned(q, op) == Called(q, op) /\ IndexOfCall(q, op) <= q.returned

\* C28: the board listing is called only when neither the request nor the
\* configuration gives a board id; the unfiltered sprint query is issued
\* only after the active query has come back without failing and without a
\* sprint; and a report whose resolution has failed issues no issue search
C28_FallbackGating ==
    \A r \in Reqs :
        LET q == rq[r]
        IN /\ Called(q, "getBoardsForProject") =>
                q.boardId \notin BoardIds /\ defaultBoardId \notin BoardIds
           /\ Called(q, "recent") =>
                /\ HasReturned(q, "active")
                /\ IndexOfCall(q, "active") < IndexOfCall(q, "recent")
                /\ "active" \notin q.failed
                /\ q.activeValues = <<>>
           /\ ResolutionFailed(q) => ~Called(q, "searchJira")

\* a report without any board id has gone through every tier: the board
\* listing, the active query that found nothing, and the unfiltered query
\* that found nothing either; it is over and has searched no issue
C28_Witness ==
    \E r \in Reqs :
        /\ rq[r].pc = "done"
        /\ rq[r].boardId = Undefined /\ defaultBoardId = Undefined
        /\ Len(rq[r].calls) = 3
        /\ rq[r].calls[1].op = "getBoardsForProject"
        /\ rq[r].calls[2].op = "active"
        /\ rq[r].calls[3].op = "recent"
        /\ rq[r].failed = {}
        /\ ResolutionFailed(rq[r])

(***************************************************************************)
(* A further claim about the projection, checked under SpecProject.        *)
(***************************************************************************)
\* the sprint has started when the clock is read, and lasts a day or more
StartedSprint ==
    /\ proj.pc = "done"
    /\ proj.sprint.startDate # Undefined
    /\ proj.sprint.startDate <= proj.today
    /\ IsFin(proj.out.totalDays)
    /\ proj.out.totalDays.v >= 1

\* C29: for a sprint that has started and lasts a day or more, daysLeft is
\* between 0 and totalDays and percentTimeElapsed between 0 and 100; once
\* the end date is reached daysLeft is 0 and percentTimeElapsed is 100
C29_TimeWithinSprint ==
    StartedSprint =>
        /\ IsFin(proj.out.daysLeft) /\ IsFin(proj.out.percentTimeElapsed)
        /\ 0 <= proj.out.daysLeft.v
        /\ proj.out.daysLeft.v <= proj.out.totalDays.v
        /\ proj.out.percentTimeElapsed.v \in 0..100
        /\ proj.today >= proj.sprint.endDate =>
             /\ proj.out.daysLeft = Fin(0)
             /\ proj.out.percentTimeElapsed = Fin(100)

\* the clock is read more than a day after the end of a sprint of ten days
C29_Witness ==
    /\ StartedSprint
    /\ proj.out.totalDays = Fin(10)
    /\ proj.today > proj.sprint.endDate + DayTicks
    /\ proj.out.daysLeft = Fin(0)
    /\ proj.out.percentTimeElapsed = Fin(100)

(***************************************************************************)
(* A claim about getFullTaskContext, checked under SpecTask.               *)
(***************************************************************************)
\* C30: when the lookup of the epic or of the subtasks fails, the call does
\* not throw: it returns a context without epic entry, respectively with an
\* empty list of subtasks; when the lookup of the main issue or of its
\* parent fails, the call throws its error and returns no context at all
C30_OptionalLookupsDegrade ==
    /\ "epic" \in task.failed =>
         /\ task.outcome # "thrown"
         /\ "epic" \notin DOMAIN task.context
         /\ task.pc = "done" =>
              task.outcome = "returned" /\ "epic" \notin DOMAIN task.returned
    /\ "subtasks" \in task.failed =>
         /\ task.outcome = "returned"
         /\ "task" \in DOMAIN task.returned
         /\ task.returned["subtasks"] = <<>>
    /\ ("issue" \in task.failed \/ "parent" \in task.failed) =>
         /\ task.outcome = "thrown"
         /\ task.returned = NoContext
         /\ task.error = <<"Não foi possível obter o contexto completo da tarefa ",
                           task.taskId>>

\* a story with a parent and an epic link: the parent was found, the lookup
\* of the epic and the search of the subtasks both failed, and the context
\* was returned
C30_Witness ==
    /\ task.pc = "done"
    /\ task.failed = {"epic", "subtasks"}
    /\ task.outcome = "returned"
    /\ DOMAIN task.returned = {"task", "parent", "subtasks"}
    /\ Len(task.calls) = 4

====
